---- MODULE Spec2Model ----
(***************************************************************************)
(* Model of the VBA external scanner (vba-parser/src/scanner.c): the five  *)
(* lifecycle hooks and tree_sitter_vba_external_scanner_scan, which        *)
(* recognises LINE_CONTINUATION (optional whitespace, then '_').           *)
(*                                                                         *)
(* The lexer handle is the host's: input is the text, pos the cursor,      *)
(* lookahead the character at the cursor (0 at end of input), advance      *)
(* moves the cursor by one character and is recorded, with its skip flag,  *)
(* in advLog.  scan is modelled statement by statement through pc; the     *)
(* host is single threaded, so no other call starts while pc # "idle".     *)
(***************************************************************************)
EXTENDS Integers, Sequences, FiniteSets, TLC

\* Longest input text explored.
MaxLen == 3

\* enum TokenType { LINE_CONTINUATION }
LINE_CONTINUATION == 0
\* Some other token kind the host may have left in result_symbol.
OtherSymbol == LINE_CONTINUATION + 1
\* '_'
Underscore == 95

\* Characters of the explored texts: newline, space, '_', 'x'.
Chars == {10, 32, Underscore, 120}
\* Payload pointers the host may pass to scan.
Payloads == {"NULL", "other"}
\* Content of the host's serialization buffer before any call.
HostBuffer == <<170, 85>>

VARIABLES
  input,          \* the text behind the lexer
  pos,            \* number of characters before the cursor
  result_symbol,  \* lexer->result_symbol
  buffer,         \* the host's serialization buffer
  ser_ret,        \* value returned by the last serialize (-1 before)
  lastCall,       \* the hook that returned last
  roundTrip,      \* the last two hooks were serialize, deserialize
  pc,             \* statement of scan in execution, "idle" outside scan
  valid,          \* valid_symbols[LINE_CONTINUATION] of the current/last scan
  payload,        \* _payload of the current/last scan
  startPos,       \* cursor when the current/last scan was called
  startSym,       \* result_symbol when the current/last scan was called
  repeated,       \* the scan follows at once a failed scan with equal valid
  viaRoundTrip,   \* the scan follows at once a serialize, deserialize pair
  advLog,         \* advance calls of the current/last scan: [ch, skip]
  symLog,         \* values written to result_symbol by the current/last scan
  ret             \* value returned by the last scan

lexer == <<input, pos, result_symbol>>
hooks == <<buffer, ser_ret>>
call  == <<valid, payload, startPos, startSym, repeated, viaRoundTrip>>
vars  == <<input, pos, result_symbol, buffer, ser_ret, lastCall,
           roundTrip, pc, valid, payload, startPos, startSym, repeated,
           viaRoundTrip, advLog, symLog, ret>>

Texts == UNION {[1..n -> Chars] : n \in 0..MaxLen}

\* lexer->lookahead: the character at the cursor, 0 at end of input.
lookahead == IF pos < Len(input) THEN input[pos + 1] ELSE 0

\* Mutant: the character class also accepts '_'.
iswspace_AlsoUnderscore(c) == c \in {9, 10, 11, 12, 13, 32, Underscore}

\* iswspace: the standard white-space wide characters.
iswspace(c) == c \in {9, 10, 11, 12, 13, 32}

\* lexer->advance(lexer, skip): one character forward, nothing at the end.
advance(skip) ==
  /\ pos' = IF pos < Len(input) THEN pos + 1 ELSE pos
  /\ advLog' = Append(advLog, [ch |-> lookahead, skip |-> skip])

Init ==
  /\ input \in Texts
  /\ pos \in 0..Len(input)
  /\ result_symbol \in {LINE_CONTINUATION, OtherSymbol}
  /\ buffer = HostBuffer
  /\ ser_ret = -1
  /\ lastCall = "none"
  /\ roundTrip = FALSE
  /\ pc = "idle"
  /\ valid = FALSE
  /\ payload = "NULL"
  /\ startPos = pos
  /\ startSym = result_symbol
  /\ repeated = FALSE
  /\ viaRoundTrip = FALSE
  /\ advLog = <<>>
  /\ symLog = <<>>
  /\ ret = FALSE

----------------------------------------------------------------------------
(* Lifecycle hooks *)

\* void *create() { return NULL; }   (no state is allocated or kept)
Create ==
  /\ pc = "idle"
  /\ lastCall' = "create"
  /\ roundTrip' = FALSE
  /\ UNCHANGED <<lexer, hooks, pc, call, advLog, symLog, ret>>

\* void destroy(void *_p) {}
Destroy ==
  /\ pc = "idle"
  /\ lastCall' = "destroy"
  /\ roundTrip' = FALSE
  /\ UNCHANGED <<lexer, hooks, pc, call, advLog, symLog, ret>>

\* void reset(void *_p) {}
Reset ==
  /\ pc = "idle"
  /\ lastCall' = "reset"
  /\ roundTrip' = FALSE
  /\ UNCHANGED <<lexer, hooks, pc, call, advLog, symLog, ret>>

\* Mutant: serialize stores one byte of state and reports its length.
Serialize_WritesLength ==
  /\ pc = "idle"
  /\ buffer' = [buffer EXCEPT ![1] = 0]
  /\ ser_ret' = 1
  /\ lastCall' = "serialize"
  /\ roundTrip' = FALSE
  /\ UNCHANGED <<lexer, pc, call, advLog, symLog, ret>>

\* unsigned serialize(void *_p, char *_buffer) { return 0; }
Serialize ==
  /\ pc = "idle"
  /\ ser_ret' = 0
  /\ lastCall' = "serialize"
  /\ roundTrip' = FALSE
  /\ UNCHANGED <<lexer, buffer, pc, call, advLog, symLog, ret>>

\* void deserialize(void *_p, const char *_b, unsigned _n) {}
Deserialize ==
  /\ pc = "idle"
  /\ lastCall' = "deserialize"
  /\ roundTrip' = (lastCall = "serialize")
  /\ UNCHANGED <<lexer, hooks, pc, call, advLog, symLog, ret>>

----------------------------------------------------------------------------
(* scan *)

\* Mutant: valid_symbols is not consulted.
ScanCall_IgnoreValid(v, p) ==
  /\ pc = "idle"
  /\ valid' = v
  /\ payload' = p
  /\ startPos' = pos
  /\ startSym' = result_symbol
  /\ repeated' = (lastCall = "scan" /\ ~ret /\ valid = v)
  /\ viaRoundTrip' = roundTrip
  /\ advLog' = <<>>
  /\ symLog' = <<>>
  /\ pc' = "while"
  /\ UNCHANGED <<lexer, hooks, lastCall, roundTrip, ret>>

\* Mutant: the scanner remembers a match and refuses a second one in a row.
ScanCall_Stateful(v, p) ==
  /\ pc = "idle"
  /\ valid' = v
  /\ payload' = p
  /\ startPos' = pos
  /\ startSym' = result_symbol
  /\ repeated' = (lastCall = "scan" /\ ~ret /\ valid = v)
  /\ viaRoundTrip' = roundTrip
  /\ advLog' = <<>>
  /\ symLog' = <<>>
  /\ pc' = IF v /\ ~(lastCall = "scan" /\ ret) THEN "while" ELSE "return_false"
  /\ UNCHANGED <<lexer, hooks, lastCall, roundTrip, ret>>

\* Entry of scan and  if (valid_symbols[LINE_CONTINUATION]) {
ScanCall(v, p) ==
  /\ pc = "idle"
  /\ valid' = v
  /\ payload' = p
  /\ startPos' = pos
  /\ startSym' = result_symbol
  /\ repeated' = (lastCall = "scan" /\ ~ret /\ valid = v)
  /\ viaRoundTrip' = roundTrip
  /\ advLog' = <<>>
  /\ symLog' = <<>>
  /\ pc' = IF v THEN "while" ELSE "return_false"
  /\ UNCHANGED <<lexer, hooks, lastCall, roundTrip, ret>>

\* Mutant: the loop body does not advance.
SkipWhitespace_NoAdvance ==
  /\ pc = "while"
  /\ iswspace(lookahead)
  /\ UNCHANGED vars

\* Mutant: white space is consumed as token content.
SkipWhitespace_Significant ==
  /\ pc = "while"
  /\ iswspace(lookahead)
  /\ advance(FALSE)
  /\ UNCHANGED <<input, result_symbol, hooks, lastCall, roundTrip, pc, call,
                 symLog, ret>>

\* while (iswspace(lexer->lookahead)) { lexer->advance(lexer, true); }
SkipWhitespace ==
  /\ pc = "while"
  /\ iswspace(lookahead)
  /\ advance(TRUE)
  /\ UNCHANGED <<input, result_symbol, hooks, lastCall, roundTrip, pc, call,
                 symLog, ret>>

\* The loop condition is false: on to  if (lexer->lookahead == '_')
LoopExit ==
  /\ pc = "while"
  /\ ~iswspace(lookahead)
  /\ pc' = "if_underscore"
  /\ UNCHANGED <<lexer, hooks, lastCall, roundTrip, call, advLog, symLog, ret>>

\* Mutant: the '_' is reported but not consumed.
MatchUnderscore_NoAdvance ==
  /\ pc = "if_underscore"
  /\ lookahead = Underscore
  /\ result_symbol' = LINE_CONTINUATION
  /\ symLog' = Append(symLog, LINE_CONTINUATION)
  /\ ret' = TRUE
  /\ lastCall' = "scan"
  /\ roundTrip' = FALSE
  /\ pc' = "idle"
  /\ UNCHANGED <<input, pos, advLog, hooks, call>>

\* lexer->advance(lexer, false); lexer->result_symbol = LINE_CONTINUATION;
\* return true;
MatchUnderscore ==
  /\ pc = "if_underscore"
  /\ lookahead = Underscore
  /\ advance(FALSE)
  /\ result_symbol' = LINE_CONTINUATION
  /\ symLog' = Append(symLog, LINE_CONTINUATION)
  /\ ret' = TRUE
  /\ lastCall' = "scan"
  /\ roundTrip' = FALSE
  /\ pc' = "idle"
  /\ UNCHANGED <<input, hooks, call>>

\* Mutant: the consumed white space is given back when no '_' follows.
NoUnderscore_Rollback ==
  /\ pc = "if_underscore"
  /\ lookahead # Underscore
  /\ pos' = startPos
  /\ advLog' = <<>>
  /\ pc' = "return_false"
  /\ UNCHANGED <<input, result_symbol, hooks, lastCall, roundTrip, call,
                 symLog, ret>>

\* lexer->lookahead != '_': fall out of both ifs
NoUnderscore ==
  /\ pc = "if_underscore"
  /\ lookahead # Underscore
  /\ pc' = "return_false"
  /\ UNCHANGED <<lexer, hooks, lastCall, roundTrip, call, advLog, symLog, ret>>

\* Mutant: the token kind is reported although nothing matched.
ReturnFalse_WritesSymbol ==
  /\ pc = "return_false"
  /\ result_symbol' = LINE_CONTINUATION
  /\ symLog' = Append(symLog, LINE_CONTINUATION)
  /\ ret' = FALSE
  /\ lastCall' = "scan"
  /\ roundTrip' = FALSE
  /\ pc' = "idle"
  /\ UNCHANGED <<input, pos, hooks, call, advLog>>

\* Mutant: the character that did not match is consumed as well.
ReturnFalse_SkipsChar ==
  /\ pc = "return_false"
  /\ advance(TRUE)
  /\ ret' = FALSE
  /\ lastCall' = "scan"
  /\ roundTrip' = FALSE
  /\ pc' = "idle"
  /\ UNCHANGED <<input, result_symbol, hooks, call, symLog>>

\* return false;
ReturnFalse ==
  /\ pc = "return_false"
  /\ ret' = FALSE
  /\ lastCall' = "scan"
  /\ roundTrip' = FALSE
  /\ pc' = "idle"
  /\ UNCHANGED <<lexer, hooks, call, advLog, symLog>>

ScanStep ==
  SkipWhitespace \/ LoopExit \/ MatchUnderscore \/ NoUnderscore \/ ReturnFalse

Next ==
  \/ Create
  \/ Destroy
  \/ Reset
  \/ Serialize
  \/ Deserialize
  \/ \E v \in BOOLEAN, p \in Payloads : ScanCall(v, p)
  \/ SkipWhitespace
  \/ LoopExit
  \/ MatchUnderscore
  \/ NoUnderscore
  \/ ReturnFalse

Spec == Init /\ [][Next]_vars

\* scan is straight-line C code run to completion by the calling thread.
FairSpec == Spec /\ WF_vars(ScanStep)

TypeOK ==
  /\ input \in Texts
  /\ pos \in 0..Len(input)
  /\ pc \in {"idle", "while", "if_underscore", "return_false"}
  /\ ret \in BOOLEAN

----------------------------------------------------------------------------
(* Vocabulary of the properties, stated on the text, not on the code *)

\* White space: tab, newline, vertical tab, form feed, carriage return, space.
WhitespaceChars == {9, 10, 11, 12, 13, 32}

\* Length of the white-space run at the head of s.
RECURSIVE WsRun(_)
WsRun(s) ==
  IF s = <<>> \/ Head(s) \notin WhitespaceChars THEN 0 ELSE 1 + WsRun(Tail(s))

\* The first character of s after its white-space run, 0 if there is none.
FirstNonWs(s) == IF WsRun(s) < Len(s) THEN s[WsRun(s) + 1] ELSE 0

\* The text from the cursor on when the current/last scan was called.
Remaining == SubSeq(input, startPos + 1, Len(input))
\* The characters the current/last scan has consumed.
Eaten == SubSeq(input, startPos + 1, pos)
Consumed == pos - startPos
\* A scan call has returned and nothing was called since.
Done == pc = "idle" /\ lastCall = "scan"
InScan == pc # "idle"

\* C1: when valid_symbols[LINE_CONTINUATION] is false, scan returns false,
\* calls advance zero times (cursor unchanged whatever is at the cursor) and
\* does not write result_symbol.
C1_InvalidConsumesNothing ==
  /\ (InScan \/ Done) /\ ~valid =>
       /\ pos = startPos
       /\ advLog = <<>>
       /\ symLog = <<>>
       /\ result_symbol = startSym
  /\ Done /\ ~valid => ret = FALSE

C1_Witness ==
  /\ Done /\ ~valid /\ ~ret
  /\ WsRun(Remaining) >= 1
  /\ FirstNonWs(Remaining) = Underscore
  /\ startSym = OtherSymbol

\* C2: with the kind valid, on a run of n >= 0 white-space characters followed
\* by '_', scan returns true, the cursor ends exactly n+1 positions later (one
\* past that '_', whatever follows) and result_symbol is LINE_CONTINUATION.
C2_MatchAdvancesPastUnderscore ==
  Done /\ valid /\ FirstNonWs(Remaining) = Underscore =>
    /\ ret = TRUE
    /\ Consumed = WsRun(Remaining) + 1
    /\ input[pos] = Underscore
    /\ result_symbol = LINE_CONTINUATION

C2_Witness ==
  /\ Done /\ valid /\ ret
  /\ WsRun(Remaining) >= 1
  /\ FirstNonWs(Remaining) = Underscore
  /\ Len(Remaining) > WsRun(Remaining) + 1
  /\ input[pos + 1] \in WhitespaceChars \cup {Underscore}
  /\ startSym = OtherSymbol

\* C3: non-rollback: with the kind valid, when the white-space run of length
\* n >= 0 at the cursor is followed by a character other than '_' or by the
\* end of input, scan returns false and the cursor has advanced by exactly n.
C3_NoRollback ==
  Done /\ valid /\ FirstNonWs(Remaining) # Underscore =>
    /\ ret = FALSE
    /\ Consumed = WsRun(Remaining)

C3_Witness ==
  /\ Done /\ valid /\ ~ret
  /\ WsRun(Remaining) = 2
  /\ FirstNonWs(Remaining) = 120
  /\ Consumed = 2

\* C4: serialize returns 0 and writes nothing to the buffer, no lifecycle hook
\* touches the lexer, and a scan called right after serialize, deserialize
\* has the outcome the text at the cursor alone determines.
C4_LifecycleStep ==
  pc = "idle" /\ pc' = "idle" =>
    /\ lastCall' \in {"create", "destroy", "reset", "serialize", "deserialize"}
    /\ UNCHANGED <<input, pos, result_symbol, buffer>>
    /\ lastCall' = "serialize" => ser_ret' = 0
    /\ lastCall' # "serialize" => ser_ret' = ser_ret

C4_ScanAfterRoundTrip ==
  Done /\ viaRoundTrip =>
    /\ ret = (valid /\ FirstNonWs(Remaining) = Underscore)
    /\ Consumed = IF ~valid THEN 0
                  ELSE IF ret THEN WsRun(Remaining) + 1 ELSE WsRun(Remaining)
    /\ symLog = IF ret THEN <<LINE_CONTINUATION>> ELSE <<>>

C4_LifecycleIsInert == [][C4_LifecycleStep]_vars /\ []C4_ScanAfterRoundTrip

C4_Witness ==
  /\ Done /\ viaRoundTrip /\ ret
  /\ ser_ret = 0
  /\ buffer = HostBuffer
  /\ Consumed >= 2

\* C5: the outcome of scan (return value, characters consumed, value written
\* to result_symbol) is a function of the text at the cursor and of
\* valid_symbols[LINE_CONTINUATION] alone: not of the payload, of the calls
\* made before, of the consumed text or of the old result_symbol.
Outcome(s, v) ==
  IF v /\ FirstNonWs(s) = Underscore
    THEN [ret |-> TRUE, consumed |-> WsRun(s) + 1,
          written |-> <<LINE_CONTINUATION>>]
    ELSE [ret |-> FALSE, consumed |-> IF v THEN WsRun(s) ELSE 0,
          written |-> <<>>]

C5_HistoryFree ==
  Done =>
    [ret |-> ret, consumed |-> Consumed, written |-> symLog]
      = Outcome(Remaining, valid)

C5_Witness ==
  /\ Done /\ valid /\ ret
  /\ payload = "other"
  /\ startPos > 0
  /\ ser_ret = 0
  /\ startSym = OtherSymbol

\* C6: result_symbol is assigned only on a match: when scan returns false it
\* keeps the value it had before the call, when scan returns true it is
\* LINE_CONTINUATION.
C6_SymbolOnlyOnMatch ==
  /\ Done /\ ~ret => result_symbol = startSym /\ symLog = <<>>
  /\ Done /\ ret => result_symbol = LINE_CONTINUATION
  /\ InScan => result_symbol = startSym /\ symLog = <<>>

C6_Witness ==
  /\ Done /\ ~ret /\ valid
  /\ Consumed >= 1
  /\ startSym = OtherSymbol
  /\ result_symbol = OtherSymbol

\* C7: every scan call terminates; the white-space loop makes exactly as many
\* advance calls as there are white-space characters at the cursor, none at
\* the end of input, and the call makes at most that many plus one.
SkipCount == Cardinality({i \in DOMAIN advLog : advLog[i].skip})

C7_Counts ==
  /\ \A i \in DOMAIN advLog : advLog[i].ch # 0
  /\ pos <= Len(input)
  /\ (InScan \/ Done) => Len(advLog) <= WsRun(Remaining) + 1
  /\ (pc = "if_underscore" \/ (Done /\ valid)) => SkipCount = WsRun(Remaining)
  /\ (InScan \/ Done) => Len(advLog) = Consumed

C7_Terminates == []C7_Counts /\ (InScan ~> Done)

C7_Witness ==
  /\ Done /\ valid /\ ~ret
  /\ pos = Len(input)
  /\ Len(advLog) = MaxLen

\* C8: white space is consumed with skip = true, the underscore with
\* skip = false; the skipping advances come first, a match makes exactly one
\* significant advance, its last, and a call without match makes none.
C8_SkipFlags ==
  /\ \A i \in DOMAIN advLog :
       /\ advLog[i].ch \in WhitespaceChars => advLog[i].skip = TRUE
       /\ advLog[i].ch = Underscore => advLog[i].skip = FALSE
       /\ advLog[i].skip = FALSE => i = Len(advLog)
       /\ advLog[i].ch = input[startPos + i]
  /\ Done /\ ret =>
       /\ advLog # <<>>
       /\ advLog[Len(advLog)].skip = FALSE
       /\ advLog[Len(advLog)].ch = Underscore
  /\ (InScan \/ (Done /\ ~ret)) => \A i \in DOMAIN advLog : advLog[i].skip

C8_Witness ==
  /\ Done /\ ret
  /\ Len(advLog) = 3
  /\ advLog[1].skip /\ advLog[2].skip /\ ~advLog[3].skip

\* C9: scan returns true exactly when the kind is valid and the first
\* character after the white space at the cursor exists and is '_'; it never
\* consumes another non-white-space character and at most one '_' per call.
C9_TrueIffUnderscore ==
  /\ Done => (ret <=> (valid /\ FirstNonWs(Remaining) = Underscore))
  /\ \A i \in DOMAIN Eaten : Eaten[i] \in WhitespaceChars \cup {Underscore}
  /\ Cardinality({i \in DOMAIN Eaten : Eaten[i] = Underscore}) <= 1

C9_Witness ==
  /\ Done /\ ret
  /\ Len(Remaining) >= 2
  /\ Remaining[1] = Underscore
  /\ Remaining[2] = Underscore
  /\ Consumed = 1

\* C10: a scan that follows at once a failed scan with the same valid_symbols
\* returns false again and consumes nothing; the cursor never moves backwards
\* and never passes the end of input.
C10_Repeat ==
  /\ Done /\ repeated => ret = FALSE /\ Consumed = 0 /\ advLog = <<>>
  /\ pos <= Len(input)

C10_FailedScanIdempotent == []C10_Repeat /\ [][pos' >= pos]_vars

C10_Witness ==
  /\ Done /\ repeated /\ valid /\ ~ret
  /\ pos > 0
  /\ pos < Len(input)
  /\ input[pos] \in WhitespaceChars

====
